---------------------------- MODULE Spec2Model ----------------------------
(***************************************************************************)
(* Model of the parking-booking automation: the ledger (bookings.json),    *)
(* the add-booking command, and the daily orchestrator run that drives the *)
(* WayleadrPage driver and reconciles the ledger.                          *)
(*                                                                         *)
(* A date text "dd-MM-yyyy" is the record [dd, mm, yyyy] of its three      *)
(* digit runs (each a sequence of digits); a Date object is the record     *)
(* [valid, day, tod]: day counts days since 01-01-1970 (local calendar),   *)
(* tod counts ticks since local midnight.                                  *)
(***************************************************************************)
EXTENDS Integers, Sequences, FiniteSets, TLC

\* ------------------------------------------------------------------ bounds
\* number of records the add-booking command may bring the ledger to
MaxLedger == 2
\* number of days the calendar may advance past the first day
Horizon == 9
\* number of days after the first one in the range of dates put through the
\* date texts
DateSpan == 430

\* times of day the clock distinguishes: 0 is local midnight, 1 is later
TimesOfDay == {0, 1}

TicksPerDay == Cardinality(TimesOfDay)

\* ------------------------------------------------------- calendar (JS Date)
IsLeap(y) == (y % 4 = 0 /\ y % 100 # 0) \/ y % 400 = 0

DaysInMonth(m, y) ==
  IF m = 2 THEN (IF IsLeap(y) THEN 29 ELSE 28)
  ELSE IF m \in {4, 6, 9, 11} THEN 30 ELSE 31

\* days since 01-01-1970 of the civil date d-m-y (proleptic Gregorian)
DaysFromCivil(y, m, d) ==
  LET yy  == IF m <= 2 THEN y - 1 ELSE y
      era == yy \div 400
      yoe == yy - era * 400
      mp  == IF m > 2 THEN m - 3 ELSE m + 9
      doy == (153 * mp + 2) \div 5 + d - 1
      doe == yoe * 365 + yoe \div 4 - yoe \div 100 + doy
  IN  era * 146097 + doe - 719468

\* the civil date [y, m, d] of a day number
CivilFromDays(z) ==
  LET zz  == z + 719468
      era == zz \div 146097
      doe == zz - era * 146097
      yoe == (doe - doe \div 1460 + doe \div 36524 - doe \div 146096) \div 365
      doy == doe - (365 * yoe + yoe \div 4 - yoe \div 100)
      mp  == (5 * doy + 2) \div 153
      d   == doy - (153 * mp + 2) \div 5 + 1
      m   == IF mp < 10 THEN mp + 3 ELSE mp - 9
      y   == yoe + era * 400
  IN  [y |-> IF m <= 2 THEN y + 1 ELSE y, m |-> m, d |-> d]

InvalidDate == [valid |-> FALSE]

MkDate(day, tod) == [valid |-> TRUE, day |-> day, tod |-> tod]

isValidDate(date) == date.valid

\* Date.getTime(): ticks since the epoch (only read of valid dates)
getTime(date) == date.day * TicksPerDay + date.tod

\* date.setHours(0, 0, 0, 0)
setHoursZero(date) == IF date.valid THEN [date EXCEPT !.tod = 0] ELSE date

\* date-fns addDays: same time of day, n calendar days later
addDays(date, n) == IF date.valid THEN [date EXCEPT !.day = @ + n] ELSE date

\* ------------------------------------------------------ util.ts: date text
Pad2(n) == <<n \div 10, n % 10>>

Pad4(n) == <<n \div 1000, (n \div 100) % 10, (n \div 10) % 10, n % 10>>

RECURSIVE DigitsValue(_)
DigitsValue(ds) ==
  IF ds = <<>> THEN 0
  ELSE 10 * DigitsValue(SubSeq(ds, 1, Len(ds) - 1)) + ds[Len(ds)]

\* format(date, "dd-MM-yyyy") of a valid date
getFormattedDate(date) ==
  LET c == CivilFromDays(date.day)
  IN  [dd |-> Pad2(c.d), mm |-> Pad2(c.m), yyyy |-> Pad4(c.y)]

\* a parse with the pattern "MM-dd-yyyy": the first run read as the month
parseDate_MonthFirst(dateStr) ==
  LET m == DigitsValue(dateStr.dd)
      d == DigitsValue(dateStr.mm)
      y == DigitsValue(dateStr.yyyy)
  IN  IF /\ Len(dateStr.dd) \in 1..2
         /\ Len(dateStr.mm) \in 1..2
         /\ Len(dateStr.yyyy) \in 1..4
         /\ y >= 1
         /\ m \in 1..12
         /\ d >= 1
         /\ d <= DaysInMonth(m, y)
      THEN MkDate(DaysFromCivil(y, m, d), 0)
      ELSE InvalidDate

\* parse(dateStr, "dd-MM-yyyy", new Date()): dd and MM take one or two digits,
\* yyyy one to four; the day must exist in the month; the result is at midnight
parseDate(dateStr) ==
  LET d == DigitsValue(dateStr.dd)
      m == DigitsValue(dateStr.mm)
      y == DigitsValue(dateStr.yyyy)
  IN  IF /\ Len(dateStr.dd) \in 1..2
         /\ Len(dateStr.mm) \in 1..2
         /\ Len(dateStr.yyyy) \in 1..4
         /\ y >= 1
         /\ m \in 1..12
         /\ d >= 1
         /\ d <= DaysInMonth(m, y)
      THEN MkDate(DaysFromCivil(y, m, d), 0)
      ELSE InvalidDate


\* --------------------------------------------------------------- the state
VARIABLES
  ledger,        \* contents of bookings.json: a sequence of Booking records
  now,           \* the wall clock: a Date (day, tick of the day)
  pc,            \* position of the orchestrator process (parking-booking main)
  targetBookingDate, \* main's targetBookingDate (a Date) or Undefined
  result,        \* main's local variable result
  calls,         \* WayleadrPage methods invoked in this run, in order
  raised,        \* the driver step whose error main's catch block caught
  indicators,    \* the outcome indicators visible when submit classified
  sharedUnavailable, \* what isSharedSpaceUnavailable returned: "unchecked", "yes", "no"
  zone,          \* the form's Preferred Zone: "shared" (default) or "paid"
  session,       \* browser and context: "none", "open" or "closed"
  loads,         \* loadBookings calls of this run
  saves,         \* saveBookings calls of this run
  exitCode,      \* exit status of the orchestrator process (read at "exited")
  cli,           \* the add-booking process that just ran: its exit, whether it
                 \* loaded and saved the ledger, what it logged
  env,           \* process.env of the orchestrator run: which credentials are set
  removed        \* the records this run's cleanupOldBookings filtered out

vars == <<ledger, now, pc, targetBookingDate, result, calls, raised,
          indicators, sharedUnavailable, zone, session, loads, saves,
          exitCode, cli, env, removed>>

runVars == <<pc, targetBookingDate, result, calls, raised, indicators,
             sharedUnavailable, zone, session, loads, saves, exitCode,
             env, removed>>

Undefined == [undefined |-> TRUE]

NoCli == [op |-> "none"]

\* process.env before a run has read it
NoEnv == [read |-> FALSE]

\* the three outcome indicators of the page
Indicators == {"successAlert", "errorAlert", "noSpacesMessage"}

\* ------------------------------------------------------------ environment
FirstDay == DaysFromCivil(2025, 2, 20)

LastDay == FirstDay + Horizon

DateText(dd, mm, yyyy) == [dd |-> dd, mm |-> mm, yyyy |-> yyyy]

\* arguments given to add-booking: "21-02-2025", "01-03-2025", "02-03-2025"
\* (each the day after a day of the window; their order as texts is not their
\* order as dates), the unpadded "1-03-2025" and the day that does not exist
\* "31-02-2025"
InputDates ==
  { DateText(<<2, 1>>, <<0, 2>>, <<2, 0, 2, 5>>),
    DateText(<<0, 1>>, <<0, 3>>, <<2, 0, 2, 5>>),
    DateText(<<0, 2>>, <<0, 3>>, <<2, 0, 2, 5>>),
    DateText(<<1>>, <<0, 3>>, <<2, 0, 2, 5>>),
    DateText(<<3, 1>>, <<0, 2>>, <<2, 0, 2, 5>>) }

\* ------------------------------------------------------- util.ts: ledger
loadBookings == ledger

\* the records of a ledger whose parking_date is the text dateStr
RecordsFor(bookings, dateStr) ==
  {i \in 1..Len(bookings) : bookings[i].parking_date = dateStr}

\* ------------------------------------------------------ add-booking.ts
RESET_STATUSES_Wide == {"failed", "no_space", "booked"}

\* a reset list that also takes a record still waiting
RESET_STATUSES_WithPending == {"failed", "no_space", "pending"}

RESET_STATUSES == {"failed", "no_space"}

\* a lookup that never finds the record
FindIndex_Never(bookings, dateStr) == 0

\* bookings.find(b => b.parking_date === dateStr): index of the first, or 0
FindIndex(bookings, dateStr) ==
  LET hits == {i \in 1..Len(bookings) : bookings[i].parking_date = dateStr}
  IN  IF hits = {} THEN 0 ELSE CHOOSE i \in hits : \A j \in hits : i <= j

\* a comparator on the texts: day digits first, then month, then year
SortKey_Text(b) ==
  DigitsValue(b.parking_date.dd \o b.parking_date.mm \o b.parking_date.yyyy)

\* key of Array.prototype.sort's comparator in addBookingEntry
SortKey(b) == getTime(parseDate(b.parking_date))

\* insert b after the last element whose key is not larger (stable)
RECURSIVE InsertSorted(_, _)
InsertSorted(sorted, b) ==
  IF sorted = <<>> THEN <<b>>
  ELSE IF SortKey(sorted[Len(sorted)]) <= SortKey(b)
       THEN Append(sorted, b)
       ELSE Append(InsertSorted(SubSeq(sorted, 1, Len(sorted) - 1), b),
                   sorted[Len(sorted)])

\* bookings.sort((a, b) => parseDate(a..).getTime() - parseDate(b..).getTime())
RECURSIVE SortByParkingDate(_)
SortByParkingDate(bookings) ==
  IF bookings = <<>> THEN <<>>
  ELSE InsertSorted(SortByParkingDate(SubSeq(bookings, 1, Len(bookings) - 1)),
                    bookings[Len(bookings)])

ReAdded == [kind |-> "Re-added"]

\* a new record stamped with the parking date instead of today
NewBooking_StampedWithDate(dateStr) ==
  [parking_date |-> dateStr, status |-> "pending",
   created_at |-> dateStr, last_attempt |-> Undefined,
   attempt_message |-> Undefined]

\* the object pushed by addBookingEntry (line 21)
NewBooking(dateStr) ==
  [parking_date |-> dateStr, status |-> "pending",
   created_at |-> getFormattedDate(now), last_attempt |-> Undefined,
   attempt_message |-> Undefined]

\* a reset that leaves the message of the last attempt in place
ResetBooking_KeepsMessage(existing) ==
  [existing EXCEPT !.status = "pending", !.last_attempt = Undefined]

\* a reset that leaves last_attempt as the attempt wrote it
ResetBooking_KeepsLastAttempt(existing) ==
  [existing EXCEPT !.status = "pending", !.attempt_message = ReAdded]

\* Object.assign(existing, {...}) of addBookingEntry (line 18)
ResetBooking(existing) ==
  [existing EXCEPT !.status = "pending", !.last_attempt = Undefined,
                   !.attempt_message = ReAdded]

\* a check of validity only, without the comparison with the formatted text
AcceptsDate_ValidOnly(dateStr) == isValidDate(parseDate(dateStr))

\* the input passes the check of addBookingEntry's first lines
AcceptsDate(dateStr) ==
  LET date == parseDate(dateStr)
  IN  isValidDate(date) /\ getFormattedDate(date) = dateStr

\* addBookingEntry and the main of add-booking: one process, start to exit
addBookingEntry(dateStr) ==
  /\ pc = "idle"
  /\ UNCHANGED <<now, runVars>>
  /\ IF ~AcceptsDate(dateStr)
     THEN /\ cli' = [op |-> "add", exit |-> 1, saved |-> FALSE,
                      log |-> "Invalid date", loaded |-> FALSE]
          /\ UNCHANGED ledger
     ELSE LET bookings == loadBookings
              k == FindIndex(bookings, dateStr)
          IN  IF k # 0
              THEN IF bookings[k].status \notin RESET_STATUSES
                   THEN /\ cli' = [op |-> "add", exit |-> 1, saved |-> FALSE,
                                    log |-> "none", loaded |-> TRUE]
                        /\ UNCHANGED ledger
                   ELSE /\ ledger' = SortByParkingDate(
                                [bookings EXCEPT ![k] = ResetBooking(@)])
                        /\ cli' = [op |-> "add", exit |-> 0, saved |-> TRUE,
                                    log |-> "Reset", loaded |-> TRUE]
              ELSE /\ Len(bookings) < MaxLedger
                   /\ ledger' = SortByParkingDate(
                                  Append(bookings, NewBooking(dateStr)))
                   /\ cli' = [op |-> "add", exit |-> 0, saved |-> TRUE,
                               log |-> "Added", loaded |-> TRUE]

AddBooking == \E dateStr \in InputDates : addBookingEntry(dateStr)

\* ------------------------------------------------------ wayleadr-page.ts
\* the checks in another order: the error banner first
submitClassify_ErrorFirst(visible) ==
  IF "errorAlert" \in visible THEN "failed"
  ELSE IF "successAlert" \in visible THEN "booked"
  ELSE IF "noSpacesMessage" \in visible THEN "no_space"
  ELSE "failed"

\* the checks in another order: the no-spaces text first
submitClassify_NoSpaceFirst(visible) ==
  IF "noSpacesMessage" \in visible THEN "no_space"
  ELSE IF "successAlert" \in visible THEN "booked"
  ELSE "failed"

\* the three isVisible checks that end WayleadrPage.submit
submitClassify(visible) ==
  IF "successAlert" \in visible THEN "booked"
  ELSE IF "noSpacesMessage" \in visible THEN "no_space"
  ELSE "failed"

\* ---------------------------------------------------- parking-booking.ts
DAYS_TO_KEEP_BOOKING == 7

\* a scheduler that hands back the day before the parking date, the day it
\* compared with today, in place of the parking date
findTomorrowsPendingBooking_ReturnsDayBefore(bookings) ==
  LET today   == setHoursZero(now)
      pending == SelectSeq(bookings, LAMBDA b : b.status = "pending")
      dates   == [i \in 1..Len(pending) |->
                    setHoursZero(addDays(parseDate(pending[i].parking_date), -1))]
      hits    == {i \in 1..Len(dates) :
                    /\ isValidDate(dates[i])
                    /\ getTime(dates[i]) = getTime(today)}
  IN  IF hits = {} THEN Undefined
      ELSE dates[CHOOSE i \in hits : \A j \in hits : i <= j]

\* a scheduler that takes up failed records again
findTomorrowsPendingBooking_RetriesFailed(bookings) ==
  LET today   == setHoursZero(now)
      pending == SelectSeq(bookings,
                           LAMBDA b : b.status \in {"pending", "failed"})
      dates   == [i \in 1..Len(pending) |-> parseDate(pending[i].parking_date)]
      hits    == {i \in 1..Len(dates) :
                    LET dayBefore == setHoursZero(addDays(dates[i], -1))
                    IN  /\ isValidDate(dayBefore)
                        /\ getTime(dayBefore) = getTime(today)}
  IN  IF hits = {} THEN Undefined
      ELSE dates[CHOOSE i \in hits : \A j \in hits : i <= j]

\* the scheduler without its filter on status
findTomorrowsPendingBooking_AnyStatus(bookings) ==
  LET today == setHoursZero(now)
      dates == [i \in 1..Len(bookings) |-> parseDate(bookings[i].parking_date)]
      hits  == {i \in 1..Len(dates) :
                  LET dayBefore == setHoursZero(addDays(dates[i], -1))
                  IN  /\ isValidDate(dayBefore)
                      /\ getTime(dayBefore) = getTime(today)}
  IN  IF hits = {} THEN Undefined
      ELSE dates[CHOOSE i \in hits : \A j \in hits : i <= j]

\* the scheduler without the step back of one day
findTomorrowsPendingBooking_SameDay(bookings) ==
  LET today   == setHoursZero(now)
      pending == SelectSeq(bookings, LAMBDA b : b.status = "pending")
      dates   == [i \in 1..Len(pending) |-> parseDate(pending[i].parking_date)]
      hits    == {i \in 1..Len(dates) :
                    /\ isValidDate(dates[i])
                    /\ getTime(setHoursZero(dates[i])) = getTime(today)}
  IN  IF hits = {} THEN Undefined
      ELSE dates[CHOOSE i \in hits : \A j \in hits : i <= j]

\* findTomorrowsPendingBooking: the parsed date of the first pending record
\* whose day before, at midnight, is today at midnight; or Undefined
findTomorrowsPendingBooking(bookings) ==
  LET today   == setHoursZero(now)
      pending == SelectSeq(bookings, LAMBDA b : b.status = "pending")
      dates   == [i \in 1..Len(pending) |-> parseDate(pending[i].parking_date)]
      hits    == {i \in 1..Len(dates) :
                    LET dayBefore == setHoursZero(addDays(dates[i], -1))
                    IN  /\ isValidDate(dayBefore)
                        /\ getTime(dayBefore) = getTime(today)}
  IN  IF hits = {} THEN Undefined
      ELSE dates[CHOOSE i \in hits : \A j \in hits : i <= j]

\* the message main builds from result
AttemptMessage(outcome) ==
  IF outcome = "booked"
  THEN [kind |-> "Attempted on", date |-> getFormattedDate(now),
        result |-> outcome]
  ELSE [kind |-> "Booking not successful on", date |-> getFormattedDate(now),
        result |-> outcome]

\* the update without its write of last_attempt
updateBookingStatus_NoLastAttempt(bookings, date, outcome, message) ==
  LET k == FindIndex(bookings, getFormattedDate(date))
  IN  IF k = 0 THEN bookings
      ELSE [bookings EXCEPT ![k] =
              [@ EXCEPT !.status = outcome, !.attempt_message = message]]

\* an update of every record that has the formatted date
updateBookingStatus_EveryMatch(bookings, date, outcome, message) ==
  [k \in 1..Len(bookings) |->
     IF bookings[k].parking_date = getFormattedDate(date)
     THEN [bookings[k] EXCEPT !.status = outcome,
                              !.last_attempt = getFormattedDate(now),
                              !.attempt_message = message]
     ELSE bookings[k]]

\* an update that adds the record it did not find
updateBookingStatus_AddsMissing(bookings, date, outcome, message) ==
  LET k == FindIndex(bookings, getFormattedDate(date))
  IN  IF k = 0
      THEN Append(bookings,
                  [parking_date |-> getFormattedDate(date), status |-> outcome,
                   created_at |-> getFormattedDate(now),
                   last_attempt |-> getFormattedDate(now),
                   attempt_message |-> message])
      ELSE [bookings EXCEPT ![k] =
              [@ EXCEPT !.status = outcome,
                        !.last_attempt = getFormattedDate(now),
                        !.attempt_message = message]]

\* an update that writes a fresh object in place of the record
updateBookingStatus_FreshObject(bookings, date, outcome, message) ==
  LET k == FindIndex(bookings, getFormattedDate(date))
  IN  IF k = 0 THEN bookings
      ELSE [bookings EXCEPT ![k] =
              [parking_date |-> @.parking_date, status |-> outcome,
               created_at |-> getFormattedDate(now),
               last_attempt |-> getFormattedDate(now),
               attempt_message |-> message]]

\* updateBookingStatus: the bookings it saves (the loaded ones when no record
\* has the formatted date, and then nothing is saved)
updateBookingStatus(bookings, date, outcome, message) ==
  LET k == FindIndex(bookings, getFormattedDate(date))
  IN  IF k = 0 THEN bookings
      ELSE [bookings EXCEPT ![k] =
              [@ EXCEPT !.status = outcome,
                        !.last_attempt = getFormattedDate(now),
                        !.attempt_message = message]]

\* a pruning by position: the oldest entry goes, whatever its date
cleanupOldBookings_DropsFirst(bookings) ==
  IF bookings = <<>> THEN bookings ELSE Tail(bookings)

\* a filter that keeps every booked record, whatever its date
cleanupOldBookings_KeepsBooked(bookings) ==
  LET sevenDaysAgo == addDays(now, -DAYS_TO_KEEP_BOOKING)
      Keep(booking) ==
        LET date == parseDate(booking.parking_date)
        IN  /\ isValidDate(date)
            /\ \/ booking.status = "booked"
               \/ getTime(setHoursZero(date)) >= getTime(sevenDaysAgo)
  IN  SelectSeq(bookings, Keep)

\* cleanupOldBookings: the bookings it saves
cleanupOldBookings(bookings) ==
  LET sevenDaysAgo == addDays(now, -DAYS_TO_KEEP_BOOKING)
      Keep(booking) ==
        LET date == parseDate(booking.parking_date)
        IN  /\ isValidDate(date)
            /\ getTime(setHoursZero(date)) >= getTime(sevenDaysAgo)
  IN  SelectSeq(bookings, Keep)

\* a check that lets a run with one of the two credentials through
CredentialsNotSet_Both(USERNAME, PASSWORD) == ~USERNAME /\ ~PASSWORD

\* main, line 63: !USERNAME || !PASSWORD (TRUE stands for a set, non-empty
\* variable)
CredentialsNotSet(USERNAME, PASSWORD) == ~USERNAME \/ ~PASSWORD

\* main, lines 62-71: credentials, then the scheduler; a run without
\* candidate returns and the process ends with status 0
Start ==
  /\ pc = "idle"
  /\ cli' = NoCli
  /\ UNCHANGED <<ledger, now, result, calls, raised, indicators,
                 sharedUnavailable, zone, session, saves, removed>>
  /\ \E USERNAME \in BOOLEAN, PASSWORD \in BOOLEAN :
       /\ env' = [read |-> TRUE, USERNAME |-> USERNAME, PASSWORD |-> PASSWORD]
       /\ IF CredentialsNotSet(USERNAME, PASSWORD)
          THEN /\ pc' = "exited"
               /\ exitCode' = 1
               /\ UNCHANGED <<targetBookingDate, loads>>
          ELSE /\ targetBookingDate' = findTomorrowsPendingBooking(loadBookings)
               /\ loads' = loads + 1
               /\ IF targetBookingDate' = Undefined
                  THEN pc' = "exited" /\ exitCode' = 0
                  ELSE pc' = "launch" /\ UNCHANGED exitCode

\* a chromium.launch that never settles
Launch_Hangs ==
  /\ pc = "launch"
  /\ FALSE
  /\ UNCHANGED vars

\* main, lines 72-82: browser, context, page, WayleadrPage; result = "failed"
Launch ==
  /\ pc = "launch"
  /\ session' = "open"
  /\ result' = "failed"
  /\ pc' = "login"
  /\ UNCHANGED <<ledger, now, targetBookingDate, calls, raised, indicators,
                 sharedUnavailable, zone, loads, saves, exitCode, cli,
                 env, removed>>

\* a catch block that records the error as no space
Caught_AsNoSpace(step) ==
  /\ raised' = step
  /\ result' = "no_space"
  /\ pc' = "finish"

\* a catch around each step: the error is recorded and main goes on with the
\* step that follows
Caught_GoesOn(step) ==
  /\ raised' = step
  /\ result' = "failed"
  /\ pc' = IF step = "login" THEN "selectDate"
           ELSE IF step = "selectDate" THEN "zoneCheck"
           ELSE IF step = "switchToPaidParking" THEN "submit"
           ELSE "finish"

\* main's catch block: the error of a driver step becomes result = "failed"
Caught(step) ==
  /\ raised' = step
  /\ result' = "failed"
  /\ pc' = "finish"

\* wp.login: it completes, or an awaited step rejects, or the click on
\* 'Book Space' that navigateToBookingPage does not await rejects, which no
\* handler receives: the process ends there with status 1
Login ==
  /\ pc = "login"
  /\ calls' = Append(calls, "login")
  /\ UNCHANGED <<ledger, now, targetBookingDate, indicators,
                 sharedUnavailable, zone, loads, saves, session, cli,
                 env, removed>>
  /\ \/ pc' = "selectDate" /\ UNCHANGED <<raised, result, exitCode>>
     \/ Caught("login") /\ UNCHANGED exitCode
     \/ /\ pc' = "exited"
        /\ exitCode' = 1
        /\ raised' = "unhandled"
        /\ UNCHANGED result

\* wp.selectDate(targetBookingDate)
SelectDate ==
  /\ pc = "selectDate"
  /\ calls' = Append(calls, "selectDate")
  /\ UNCHANGED <<ledger, now, targetBookingDate, indicators,
                 sharedUnavailable, zone, loads, saves, session, exitCode, cli,
                 env, removed>>
  /\ \/ pc' = "zoneCheck" /\ UNCHANGED <<raised, result>>
     \/ Caught("selectDate")

\* main, lines 90-93: where main goes with isSharedSpaceUnavailable's answer
AfterZoneCheck_NoSwitch(unavailable) == "submit"

AfterZoneCheck(unavailable) == IF unavailable THEN "switchZone" ELSE "submit"

\* an isSharedSpaceUnavailable without its try/catch: the timeout of waitFor
\* is thrown to main
ZoneCheck_Throws ==
  /\ pc = "zoneCheck"
  /\ calls' = Append(calls, "isSharedSpaceUnavailable")
  /\ UNCHANGED <<ledger, now, targetBookingDate, indicators,
                 zone, loads, saves, session, exitCode, cli,
                 env, removed>>
  /\ \E unavailable \in BOOLEAN :
       IF unavailable
       THEN /\ sharedUnavailable' = "yes"
            /\ pc' = AfterZoneCheck(unavailable)
            /\ UNCHANGED <<raised, result>>
       ELSE /\ UNCHANGED sharedUnavailable
            /\ Caught("isSharedSpaceUnavailable")

\* wp.isSharedSpaceUnavailable: true when the no-spaces text shows up within
\* the timeout, false otherwise; it never throws
ZoneCheck ==
  /\ pc = "zoneCheck"
  /\ calls' = Append(calls, "isSharedSpaceUnavailable")
  /\ UNCHANGED <<ledger, now, targetBookingDate, raised, result, indicators,
                 zone, loads, saves, session, exitCode, cli,
                 env, removed>>
  /\ \E unavailable \in BOOLEAN :
       /\ sharedUnavailable' = IF unavailable THEN "yes" ELSE "no"
       /\ pc' = AfterZoneCheck(unavailable)

\* wp.switchToPaidParking: selects 'Paid Parking', or selectOption rejects
SwitchZone ==
  /\ pc = "switchZone"
  /\ calls' = Append(calls, "switchToPaidParking")
  /\ UNCHANGED <<ledger, now, targetBookingDate, indicators,
                 sharedUnavailable, loads, saves, session, exitCode, cli,
                 env, removed>>
  /\ \/ pc' = "submit" /\ zone' = "paid" /\ UNCHANGED <<raised, result>>
     \/ Caught("switchToPaidParking") /\ UNCHANGED zone

\* wp.submit: "throws" when the click rejects or when none of the three
\* indicators appears within the timeout (Promise.any rejects); otherwise the
\* value of the isVisible checks
submit_SwallowsTimeout(clicked, visible) ==
  IF ~clicked THEN "throws"
  ELSE IF "successAlert" \in visible THEN "booked"
  ELSE IF "errorAlert" \in visible THEN "failed"
  ELSE "no_space"

submit(clicked, visible) ==
  IF ~clicked \/ visible = {} THEN "throws" ELSE submitClassify(visible)

\* main, line 96: result = await wp.submit()
Submit ==
  /\ pc = "submit"
  /\ calls' = Append(calls, "submit")
  /\ UNCHANGED <<ledger, now, targetBookingDate, sharedUnavailable, zone,
                 loads, saves, session, exitCode, cli,
                 env, removed>>
  /\ \E clicked \in BOOLEAN, visible \in SUBSET Indicators :
       /\ ~clicked => visible = {}
       /\ indicators' = visible
       /\ LET returned == submit(clicked, visible)
          IN  IF returned = "throws"
              THEN Caught("submit")
              ELSE /\ result' = returned
                   /\ pc' = "finish"
                   /\ UNCHANGED raised

\* a main that returns instead of calling process.exit with the outcome
ExitStatus_AlwaysZero(outcome) == 0

\* the status main exits with after an attempt
ExitStatus(outcome) == IF outcome = "booked" THEN 0 ELSE 1

\* main, lines 101-108: message, updateBookingStatus, cleanupOldBookings,
\* context.close, browser.close, process.exit
Finish ==
  /\ pc = "finish"
  /\ LET bookings == loadBookings
         found    == FindIndex(bookings, getFormattedDate(targetBookingDate)) # 0
         updated  == updateBookingStatus(bookings, targetBookingDate, result,
                                         AttemptMessage(result))
     IN  /\ ledger' = cleanupOldBookings(updated)
         /\ removed' = SelectSeq(updated,
                          LAMBDA b : \A j \in 1..Len(ledger') : ledger'[j] # b)
         /\ loads' = loads + 2
         /\ saves' = saves + (IF found THEN 2 ELSE 1)
  /\ session' = "closed"
  /\ exitCode' = ExitStatus(result)
  /\ pc' = "exited"
  /\ UNCHANGED <<now, targetBookingDate, result, calls, raised, indicators,
                 sharedUnavailable, zone, cli, env>>

\* the process is gone; the next invocation starts from fresh locals
Exit ==
  /\ pc = "exited"
  /\ pc' = "idle"
  /\ targetBookingDate' = Undefined
  /\ result' = "failed"
  /\ calls' = <<>>
  /\ raised' = "none"
  /\ indicators' = {}
  /\ sharedUnavailable' = "unchecked"
  /\ zone' = "shared"
  /\ session' = "none"
  /\ loads' = 0
  /\ saves' = 0
  /\ exitCode' = 0
  /\ env' = NoEnv
  /\ removed' = <<>>
  /\ UNCHANGED <<ledger, now, cli>>

\* the days on which a process is started: the first day of the window, and
\* the days from which the date after the first day is DAYS_TO_KEEP_BOOKING
\* days old or older
ClockDays ==
  {FirstDay} \cup
  {day \in FirstDay..LastDay : day > FirstDay + DAYS_TO_KEEP_BOOKING}

\* time passes between invocations: to a later time of the day or to a later
\* day
Tick ==
  /\ pc = "idle"
  /\ \E day \in ClockDays, t \in TimesOfDay :
       /\ getTime(MkDate(day, t)) > getTime(now)
       /\ now' = MkDate(day, t)
  /\ cli' = NoCli
  /\ UNCHANGED <<ledger, runVars>>

Init ==
  /\ ledger = <<>>
  /\ now \in {MkDate(FirstDay, t) : t \in TimesOfDay}
  /\ pc = "idle"
  /\ targetBookingDate = Undefined
  /\ result = "failed"
  /\ calls = <<>>
  /\ raised = "none"
  /\ indicators = {}
  /\ sharedUnavailable = "unchecked"
  /\ zone = "shared"
  /\ session = "none"
  /\ loads = 0
  /\ saves = 0
  /\ exitCode = 0
  /\ cli = NoCli
  /\ env = NoEnv
  /\ removed = <<>>

Next ==
  \/ AddBooking
  \/ Tick
  \/ Start
  \/ Launch
  \/ Login
  \/ SelectDate
  \/ ZoneCheck
  \/ SwitchZone
  \/ Submit
  \/ Finish
  \/ Exit

Spec == Init /\ [][Next]_vars

\* ------------------------------ a bookings.json the tools did not write
\* a record as JSON.parse returns it: a property the file does not give
\* reads as undefined
StoredRecord(dateStr, created) ==
  [parking_date |-> dateStr, status |-> "pending", created_at |-> created,
   last_attempt |-> Undefined, attempt_message |-> Undefined]

\* what the file may give for created_at: the first day's text, or nothing
StoredCreated == {getFormattedDate(MkDate(FirstDay, 0)), Undefined}

\* files of one or two records, in calendar order, each record with or
\* without created_at; the two records may have the same date
StoredFiles ==
  LET first == DateText(<<2, 1>>, <<0, 2>>, <<2, 0, 2, 5>>)
      later == {first,
                DateText(<<0, 1>>, <<0, 3>>, <<2, 0, 2, 5>>),
                DateText(<<0, 2>>, <<0, 3>>, <<2, 0, 2, 5>>)}
  IN  {<<StoredRecord(first, c)>> : c \in StoredCreated}
      \cup {<<StoredRecord(first, c[1]), StoredRecord(d, c[2])>> :
              c \in StoredCreated \X StoredCreated, d \in later}

\* as Init, with a file that is already there
StoredInit ==
  /\ ledger \in StoredFiles
  /\ now \in {MkDate(FirstDay, t) : t \in TimesOfDay}
  /\ pc = "idle"
  /\ targetBookingDate = Undefined
  /\ result = "failed"
  /\ calls = <<>>
  /\ raised = "none"
  /\ indicators = {}
  /\ sharedUnavailable = "unchecked"
  /\ zone = "shared"
  /\ session = "none"
  /\ loads = 0
  /\ saves = 0
  /\ exitCode = 0
  /\ cli = NoCli
  /\ env = NoEnv
  /\ removed = <<>>

StoredSpec == StoredInit /\ [][Next]_vars

\* ------------------------------------- a run whose every step settles
\* the steps of main after the scheduler returned a candidate
RunStep ==
  \/ Launch
  \/ Login
  \/ SelectDate
  \/ ZoneCheck
  \/ SwitchZone
  \/ Submit
  \/ Finish

\* orchestrator runs, one after the other, on the first day
LiveNext ==
  \/ Start
  \/ RunStep
  \/ Exit

\* the runs start from a file that is already there; every await of main
\* settles: Playwright resolves or rejects each call within the default
\* timeouts set in WayleadrPage's constructor, and the file operations return
LiveSpec == StoredInit /\ [][LiveNext]_vars /\ WF_vars(RunStep)

\* ------------------------------ bookings.json rewritten during a run
\* between the attempt and updateBookingStatus's own loadBookings another
\* writer replaces the file by one without the candidate's record
FileChanged ==
  /\ pc = "finish"
  /\ RecordsFor(ledger, getFormattedDate(targetBookingDate)) # {}
  /\ ledger' = SelectSeq(ledger, LAMBDA b :
                   b.parking_date # getFormattedDate(targetBookingDate))
  /\ UNCHANGED <<now, runVars, cli>>

RaceNext ==
  \/ Next
  \/ FileChanged

RaceSpec == Init /\ [][RaceNext]_vars

\* first day of the range: it runs through the end of 2023, the leap day of
\* 2024 and the end of 2024
DateFirst == DaysFromCivil(2023, 12, 30)

DateRange == DateFirst..(DateFirst + DateSpan)

\* the clock stands at any time of any day of the range; nothing has run
DateInit ==
  /\ ledger = <<>>
  /\ now \in {MkDate(day, t) : day \in DateRange, t \in TimesOfDay}
  /\ pc = "idle"
  /\ targetBookingDate = Undefined
  /\ result = "failed"
  /\ calls = <<>>
  /\ raised = "none"
  /\ indicators = {}
  /\ sharedUnavailable = "unchecked"
  /\ zone = "shared"
  /\ session = "none"
  /\ loads = 0
  /\ saves = 0
  /\ exitCode = 0
  /\ cli = NoCli
  /\ env = NoEnv
  /\ removed = <<>>

\* getFormattedDate(new Date()) written, and parseDate reading it back
FormatThenParse ==
  /\ targetBookingDate = Undefined
  /\ targetBookingDate' = parseDate(getFormattedDate(now))
  /\ UNCHANGED <<ledger, now, pc, result, calls, raised, indicators,
                 sharedUnavailable, zone, session, loads, saves, exitCode,
                 cli, env, removed>>

DateNext == FormatThenParse

DateSpec == DateInit /\ [][DateNext]_vars


\* =================================================================== claims
\* helpers of the claims
DriverSteps == {"login", "selectDate", "switchToPaidParking", "submit"}

AttemptOutcomes == {"booked", "failed", "no_space"}

\* the records that are pending and dated the day after today
EligibleToday(bookings) ==
  {i \in 1..Len(bookings) :
     /\ bookings[i].status = "pending"
     /\ parseDate(bookings[i].parking_date).valid
     /\ parseDate(bookings[i].parking_date).day = now.day + 1}

\* the run went through the update, the pruning and the close (main to its end)
RunCompleted == pc = "exited" /\ session = "closed"

\* the text of the candidate date
CandidateText == getFormattedDate(targetBookingDate)

\* C1: a record's status changes only pending -> booked / failed / no_space,
\* in the orchestrator's update, or failed / no_space -> pending, in
\* add-booking; the orchestrator never sets pending and never changes the
\* status of a record that was not pending.
C1_StatusTransitions ==
  [][\A i \in 1..Len(ledger) : \A j \in 1..Len(ledger') :
       (/\ ledger[i].parking_date = ledger'[j].parking_date
        /\ ledger[i].status # ledger'[j].status)
       => \/ /\ pc = "finish"
             /\ ledger[i].status = "pending"
             /\ ledger'[j].status \in AttemptOutcomes
          \/ /\ pc = "idle"
             /\ cli'.op = "add"
             /\ ledger[i].status \in {"failed", "no_space"}
             /\ ledger'[j].status = "pending"]_vars

\* C1 witness: a record that an attempt failed and add-booking then reset
C1_Witness ==
  \E i \in 1..Len(ledger) :
    ledger[i].status = "pending" /\ ledger[i].attempt_message = ReAdded

\* C2: the scheduler returns the date of the first pending record dated
\* today + 1, and nothing when there is none; never the date of a record
\* that is not pending, never another date.
C2_SchedulerSelection ==
  (loads = 1 /\ pc # "idle") =>
    LET eligible == EligibleToday(ledger)
    IN  IF eligible = {}
        THEN targetBookingDate = Undefined
        ELSE LET first == CHOOSE i \in eligible : \A j \in eligible : i <= j
             IN  /\ targetBookingDate # Undefined
                 /\ targetBookingDate.valid
                 /\ targetBookingDate.day = now.day + 1
                 /\ CandidateText = ledger[first].parking_date
                 /\ ledger[first].status = "pending"

\* C2 witness: a candidate chosen from a ledger that also holds a record
\* that is not pending
C2_Witness ==
  /\ pc = "launch"
  /\ targetBookingDate # Undefined
  /\ \E i \in 1..Len(ledger) : ledger[i].status # "pending"
  /\ Cardinality(EligibleToday(ledger)) = 1

\* C3: with no pending record dated today + 1, a run (credentials present)
\* writes nothing to the ledger, calls no driver method, opens no session and
\* ends with status 0.
C3_NoCandidateNoOp ==
  [][(pc = "idle" /\ pc' # "idle" /\ loads' = 1 /\ EligibleToday(ledger) = {})
     => /\ pc' = "exited"
        /\ exitCode' = 0
        /\ ledger' = ledger
        /\ saves' = 0
        /\ calls' = <<>>
        /\ session' = "none"]_vars

\* C3 witness: a run that ended without candidate on a ledger with records
C3_Witness ==
  /\ pc = "exited"
  /\ loads = 1
  /\ targetBookingDate = Undefined
  /\ exitCode = 0
  /\ Len(ledger) > 0

\* C4: after a run that attempted date D with outcome X, the record of D
\* has status X and last_attempt = today.
C4_UpdateAfterAttempt ==
  RunCompleted =>
    /\ result \in AttemptOutcomes
    /\ Cardinality(RecordsFor(ledger, CandidateText)) = 1
    /\ \A i \in RecordsFor(ledger, CandidateText) :
         /\ ledger[i].status = result
         /\ ledger[i].last_attempt = getFormattedDate(setHoursZero(now))

\* C4 witness: the run of the spec's scenario in the window: a record booked
\* today for tomorrow
C4_Witness ==
  /\ RunCompleted
  /\ result = "booked"
  /\ \E i \in RecordsFor(ledger, CandidateText) : ledger[i].status = "booked"

\* C5: when a driver step raises, no later driver step is invoked in the run
\* and the candidate's record is saved with status failed.
C5_RaiseMeansFailed ==
  (raised \in DriverSteps) =>
    /\ pc \in {"finish", "exited"}
    /\ calls # <<>>
    /\ calls[Len(calls)] = raised
    /\ result = "failed"
    /\ pc = "exited" =>
         /\ RunCompleted
         /\ RecordsFor(ledger, CandidateText) # {}
         /\ \A i \in RecordsFor(ledger, CandidateText) :
              ledger[i].status = "failed"

\* C5 witness: selectDate raised and the run ended
C5_Witness ==
  /\ pc = "exited"
  /\ raised = "selectDate"
  /\ calls = <<"login", "selectDate">>

\* C6: when login raises, the record ends failed, its attempt_message tells
\* a login failure apart from a failed submission, and the exit status is
\* not 0.
C6_LoginFailureMessage ==
  (pc = "exited" /\ raised = "login") =>
    /\ exitCode # 0
    /\ \A i \in RecordsFor(ledger, CandidateText) :
         /\ ledger[i].status = "failed"
         /\ ledger[i].attempt_message # AttemptMessage("failed")

\* C7: when the shared zone reports no spaces after the date selection, the
\* form is switched to the paid zone before submit is invoked, and a submit
\* that then reports success leaves the record booked; when the indicator is
\* absent the zone is not switched.
C7_ZoneFallback ==
  /\ ("submit" \in {calls[k] : k \in 1..Len(calls)} /\ sharedUnavailable = "yes")
       => /\ zone = "paid"
          /\ \E a, b \in 1..Len(calls) :
               a < b /\ calls[a] = "switchToPaidParking" /\ calls[b] = "submit"
  /\ sharedUnavailable = "no"
       => /\ zone = "shared"
          /\ "switchToPaidParking" \notin {calls[k] : k \in 1..Len(calls)}
  /\ (pc = "exited" /\ sharedUnavailable = "yes" /\ raised = "none"
        /\ "successAlert" \in indicators)
       => \A i \in RecordsFor(ledger, CandidateText) : ledger[i].status = "booked"

\* C7 witness: no space in the shared zone, then booked in the paid zone
C7_Witness ==
  /\ RunCompleted
  /\ sharedUnavailable = "yes"
  /\ zone = "paid"
  /\ indicators = {"successAlert"}
  /\ \E i \in RecordsFor(ledger, CandidateText) : ledger[i].status = "booked"

\* C8: when none of the three indicators appears after the submission
\* click, the outcome is failed, never booked and never no_space.
C8_NoIndicatorFails ==
  ("submit" \in {calls[k] : k \in 1..Len(calls)} /\ indicators = {}) =>
    /\ result = "failed"
    /\ pc = "exited" =>
         \A i \in RecordsFor(ledger, CandidateText) : ledger[i].status = "failed"

\* C8 witness: submit was invoked, nothing appeared, the run ended
C8_Witness ==
  /\ RunCompleted
  /\ calls[Len(calls)] = "submit"
  /\ indicators = {}
  /\ raised = "submit"

\* C9 as stated: with more than one indicator present after submit, the
\* result is failed.
C9_AmbiguousIsFailed ==
  (pc \in {"finish", "exited"} /\ Cardinality(indicators) > 1) =>
    result = "failed"

\* C9 as amended: with more than one indicator present, the result follows
\* the precedence success, no-space, error: booked when the success banner is
\* among them, no_space otherwise; without the success banner it is never
\* booked.
C9_AmbiguousByPrecedence ==
  (pc \in {"finish", "exited"} /\ Cardinality(indicators) > 1) =>
    /\ ("successAlert" \in indicators) => result = "booked"
    /\ ("successAlert" \notin indicators) => result = "no_space"

\* C9 witness: the error banner and the no-space text together
C9_Witness ==
  /\ pc = "exited"
  /\ indicators = {"errorAlert", "noSpacesMessage"}
  /\ result = "no_space"

\* C10: after a run that made an attempt, the exit status is 0 exactly when
\* the outcome was booked.
C10_ExitStatus ==
  (pc = "exited" /\ calls # <<>>) => (exitCode = 0 <=> result = "booked")

\* C10 witness: a run that booked and one that did not are both exits; this
\* is the booked one
C10_Witness ==
  /\ pc = "exited"
  /\ calls # <<>>
  /\ result = "booked"
  /\ exitCode = 0

\* C11: a run started without the username or without the password exits
\* with a non-zero status without having read the ledger, opened a session
\* or called the driver, and the ledger is as it was.
C11_MissingCredentials ==
  [][(/\ pc = "idle"
      /\ env'.read
      /\ (~env'.USERNAME \/ ~env'.PASSWORD))
     => (/\ pc' = "exited"
         /\ exitCode' # 0
         /\ loads' = 0
         /\ saves' = 0
         /\ session' = "none"
         /\ calls' = <<>>
         /\ ledger' = ledger)]_vars

\* C11 witness: the password is missing on a day that has a candidate
C11_Witness ==
  /\ pc = "exited"
  /\ env.read
  /\ env.USERNAME
  /\ ~env.PASSWORD
  /\ EligibleToday(ledger) # {}
  /\ exitCode = 1
  /\ loads = 0

\* the retention policy as a predicate on one record, on day today: pending;
\* or no_space and not dated before today; or booked / failed and dated no
\* more than DAYS_TO_KEEP_BOOKING days before today
RetainedByPolicy(booking, today) ==
  LET date == parseDate(booking.parking_date)
  IN  \/ booking.status = "pending"
      \/ /\ booking.status = "no_space"
         /\ date.valid
         /\ date.day >= today
      \/ /\ booking.status \in {"booked", "failed"}
         /\ date.valid
         /\ date.day >= today - DAYS_TO_KEEP_BOOKING

\* the records of a sequence, as a set
Records(bookings) == {bookings[i] : i \in 1..Len(bookings)}

\* C12 as stated: after the retention step of a run, the records kept are
\* exactly those the policy retains (pending; no_space dated today or later;
\* booked / failed within the last 7 days) and the records removed are
\* exactly the others.
C12_RetentionPolicy ==
  RunCompleted =>
    /\ \A b \in Records(ledger) : RetainedByPolicy(b, now.day)
    /\ \A b \in Records(removed) : ~RetainedByPolicy(b, now.day)

\* C13 as stated: the retention step of a run removes no pending record,
\* whatever its parking_date.
C13_PendingNeverRemoved ==
  RunCompleted => \A b \in Records(removed) : b.status # "pending"

\* C14: the retention step is idempotent while the clock stands still:
\* applied to what it produced it changes nothing (same records, same
\* order), on every reachable ledger and on the ledger a run has just pruned.
C14_RetentionIdempotent ==
  /\ cleanupOldBookings(cleanupOldBookings(ledger)) = cleanupOldBookings(ledger)
  /\ RunCompleted => cleanupOldBookings(ledger) = ledger

\* C14 witness: a run whose pruning removed a record and kept another
C14_Witness ==
  /\ RunCompleted
  /\ removed # <<>>
  /\ ledger # <<>>
  /\ cleanupOldBookings(ledger) = ledger

\* C15: after the retention step of a run no booked record dated more than
\* DAYS_TO_KEEP_BOOKING days before today is left in the ledger.
C15_OldBookedRemoved ==
  RunCompleted =>
    \A b \in Records(ledger) :
      (b.status = "booked" /\ parseDate(b.parking_date).valid)
        => parseDate(b.parking_date).day >= now.day - DAYS_TO_KEEP_BOOKING

\* C15 witness: a booked record dated more than 7 days before today has
\* just been removed
C15_Witness ==
  /\ RunCompleted
  /\ \E b \in Records(removed) :
       /\ b.status = "booked"
       /\ parseDate(b.parking_date).day < now.day - DAYS_TO_KEEP_BOOKING
  /\ \A b \in Records(ledger) : b.status # "booked"

\* the texts add-booking accepts as a date: what getFormattedDate writes
\* for some day
Canonical(dateStr) ==
  \E day \in FirstDay..(LastDay + 1) : getFormattedDate(MkDate(day, 0)) = dateStr

\* C16: add-booking with a valid canonical date that has no record adds
\* exactly one record, with that date, status pending, created_at today and
\* no last_attempt, and leaves every other record as it was.
C16_AddNewRecord ==
  [][\A d \in InputDates :
       (/\ addBookingEntry(d)
        /\ Canonical(d)
        /\ RecordsFor(ledger, d) = {})
       => (/\ Len(ledger') = Len(ledger) + 1
           /\ Records(ledger) \subseteq Records(ledger')
           /\ \E i \in 1..Len(ledger') :
                /\ RecordsFor(ledger', d) = {i}
                /\ ledger'[i].status = "pending"
                /\ ledger'[i].created_at = getFormattedDate(now)
                /\ ledger'[i].last_attempt = Undefined
                /\ \A j \in 1..Len(ledger') :
                     j # i => ledger'[j] \in Records(ledger))]_vars

\* C16 witness: add-booking has just added a record next to an older one
C16_Witness ==
  /\ cli # NoCli
  /\ cli.log = "Added"
  /\ Len(ledger) = 2
  /\ \E i \in 1..2 :
       /\ ledger[i].status = "pending"
       /\ ledger[i].created_at = getFormattedDate(now)
       /\ ledger[i].last_attempt = Undefined
       /\ ledger[3 - i].status = "booked"
       /\ ledger[3 - i].created_at # getFormattedDate(now)

\* C17: add-booking with the date of a record that is failed or no_space
\* sets that record to pending and replaces its attempt_message by the
\* re-added marker; no record is added and no other record changes.
C17_ResetRecord ==
  [][\A d \in InputDates :
       (/\ addBookingEntry(d)
        /\ \E k \in RecordsFor(ledger, d) :
             ledger[k].status \in {"failed", "no_space"})
       => (/\ Len(ledger') = Len(ledger)
           /\ \A i \in 1..Len(ledger) :
                IF ledger[i].parking_date = d
                THEN /\ ledger'[i].parking_date = d
                     /\ ledger'[i].status = "pending"
                     /\ ledger'[i].attempt_message = ReAdded
                     /\ ledger'[i].attempt_message # ledger[i].attempt_message
                     /\ ledger'[i].created_at = ledger[i].created_at
                ELSE ledger'[i] = ledger[i])]_vars

\* C17 witness: add-booking has just reset one record next to an attempted one
C17_Witness ==
  /\ cli # NoCli
  /\ cli.log = "Reset"
  /\ Len(ledger) = 2
  /\ \E i \in 1..2 :
       /\ ledger[i].status = "pending"
       /\ ledger[i].attempt_message = ReAdded
       /\ ledger[3 - i].status = "no_space"

\* C18: add-booking with the date of a record that is booked or pending
\* saves nothing: the ledger is as it was.
C18_ExistingKept ==
  [][\A d \in InputDates :
       (/\ addBookingEntry(d)
        /\ \E k \in RecordsFor(ledger, d) :
             ledger[k].status \in {"booked", "pending"})
       => (/\ ledger' = ledger
           /\ ~cli'.saved)]_vars

\* C18 witness: add-booking found its date in a ledger that holds a booked
\* and a pending record only, and returned without a log line
C18_Witness ==
  /\ cli # NoCli
  /\ cli.log = "none"
  /\ ~cli.saved
  /\ cli.exit = 1
  /\ Len(ledger) = 2
  /\ {ledger[1].status, ledger[2].status} = {"booked", "pending"}

\* C19: no reachable ledger holds two records with the same parking_date.
C19_UniqueDates ==
  \A i, j \in 1..Len(ledger) :
    ledger[i].parking_date = ledger[j].parking_date => i = j

\* C19 witness: add-booking was given the date of a record of a full
\* ledger, a second time, and the ledger still holds one record per date
C19_Witness ==
  /\ cli # NoCli
  /\ cli.log \in {"none", "Reset"}
  /\ Len(ledger) = 2
  /\ ledger[1].parking_date # ledger[2].parking_date

\* C20: the records of every reachable ledger are in ascending calendar
\* order of parking_date, after add-booking's save and after the
\* orchestrator's update and pruning.
C20_CalendarOrder ==
  \A i, j \in 1..Len(ledger) :
    i < j => /\ parseDate(ledger[i].parking_date).valid
             /\ parseDate(ledger[j].parking_date).valid
             /\ parseDate(ledger[i].parking_date).day
                  < parseDate(ledger[j].parking_date).day

\* C20 witness: add-booking has just added 21-02-2025 to a ledger that held
\* 01-03-2025; as texts the two are in the other order
C20_Witness ==
  /\ cli # NoCli
  /\ cli.log = "Added"
  /\ Len(ledger) = 2
  /\ ledger[1].parking_date = DateText(<<2, 1>>, <<0, 2>>, <<2, 0, 2, 5>>)
  /\ ledger[2].parking_date = DateText(<<0, 1>>, <<0, 3>>, <<2, 0, 2, 5>>)
  /\ ledger[1].created_at = getFormattedDate(now)
  /\ ledger[2].created_at # getFormattedDate(now)

\* C21: for every day of the range and every time of that day, the text
\* written by getFormattedDate parses to a valid date of the same calendar
\* day, and formatting the parsed date gives the same text again.
C21_FormatParseRoundTrip ==
  targetBookingDate # Undefined =>
    /\ targetBookingDate.valid
    /\ targetBookingDate.day = now.day
    /\ getFormattedDate(targetBookingDate) = getFormattedDate(now)

\* C21 witness: the leap day of 2024, read after midnight, went through
C21_Witness ==
  /\ targetBookingDate # Undefined
  /\ now = MkDate(DaysFromCivil(2024, 2, 29), 1)
  /\ getFormattedDate(targetBookingDate)
       = DateText(<<2, 9>>, <<0, 2>>, <<2, 0, 2, 4>>)

\* the text does not parse to a valid date, or parses to a date whose
\* formatted text is another text
Rejected(dateStr) ==
  LET date == parseDate(dateStr)
  IN  IF date.valid THEN getFormattedDate(date) # dateStr ELSE TRUE

\* C22: add-booking with a text that does not parse to a valid date, or
\* whose parsed date formats to another text, exits with a non-zero status
\* without having loaded or saved the ledger, which is as it was.
C22_InvalidInputRejected ==
  [][\A d \in InputDates :
       (addBookingEntry(d) /\ Rejected(d))
       => (/\ cli'.exit # 0
           /\ ~cli'.loaded
           /\ ~cli'.saved
           /\ ledger' = ledger)]_vars

\* C22 witness: add-booking has just rejected its input on a ledger that
\* holds records
C22_Witness ==
  /\ cli # NoCli
  /\ cli.log = "Invalid date"
  /\ cli.exit = 1
  /\ ~cli.loaded
  /\ Len(ledger) = 1
  /\ \E d \in InputDates : Rejected(d) /\ parseDate(d).valid
  /\ \E d \in InputDates : ~parseDate(d).valid

\* C23 as stated: a run that opened a browser and a context has closed them
\* when the process exits.
C23_SessionReleased ==
  pc = "exited" => session # "open"

\* C24 as stated: the failure of a remote interaction never ends the process
\* before the ledger update: a run that called the driver comes to its exit
\* through the update and the pruning, a failure having become the outcome
\* failed.
C24_FailuresContained ==
  (pc = "exited" /\ calls # <<>>) =>
    /\ raised # "unhandled"
    /\ loads = 3
    /\ (raised # "none" => result = "failed")

\* a record that has its required fields (every stored record of the model
\* has a status; parking_date and created_at may read as undefined)
Complete(b) ==
  /\ b.parking_date # Undefined
  /\ b.created_at # Undefined

\* C25 as stated: loadBookings leaves out the stored records that lack
\* parking_date, status or created_at, so the candidate the scheduler
\* returns is always the date of a complete record.
C25_LoadDropsIncomplete ==
  (pc # "idle" /\ targetBookingDate # Undefined) =>
    \E i \in RecordsFor(ledger, CandidateText) : Complete(ledger[i])

\* the number of submit calls in a sequence of driver calls
SubmitCalls(called) ==
  Cardinality({i \in 1..Len(called) : called[i] = "submit"})

\* C26: an orchestrator run calls submit at most once, and the ledger it
\* saves differs from the one it loaded in at most one record (the others
\* are kept as they were or pruned), also when two pending records are
\* dated tomorrow.
C26_OneDatePerRun ==
  [][pc # "idle" =>
       /\ SubmitCalls(calls') <= 1
       /\ pc # "finish" => ledger' = ledger
       /\ Cardinality({j \in 1..Len(ledger') :
                         ledger'[j] \notin Records(ledger)}) <= 1]_vars

\* C26 witness: the file held two pending records for tomorrow; the run
\* submitted once and one of the two is still pending
C26_Witness ==
  /\ RunCompleted
  /\ SubmitCalls(calls) = 1
  /\ Len(ledger) = 2
  /\ ledger[1].parking_date = CandidateText
  /\ ledger[2].parking_date = CandidateText
  /\ ledger[1].status = "booked"
  /\ ledger[2].status = "pending"

\* C27: the orchestrator's update and pruning leave every record they keep
\* as it was, except the record of the candidate date, of which only status,
\* last_attempt and attempt_message change; and no step of any process
\* changes the created_at of a record that stays in the ledger.
C27_UpdateFrame ==
  [][/\ \A i \in 1..Len(ledger), j \in 1..Len(ledger') :
          ledger[i].parking_date = ledger'[j].parking_date
            => ledger'[j].created_at = ledger[i].created_at
     /\ pc = "finish" =>
          \A j \in 1..Len(ledger') :
            \/ ledger'[j] \in Records(ledger)
            \/ /\ ledger'[j].parking_date = CandidateText
               /\ \E i \in 1..Len(ledger) :
                    /\ ledger[i].parking_date = CandidateText
                    /\ ledger'[j].created_at = ledger[i].created_at]_vars

\* C27 witness: a record created on an earlier day has just been attempted,
\* next to a record the run did not touch
C27_Witness ==
  /\ RunCompleted
  /\ Len(ledger) = 2
  /\ \E i \in 1..2 :
       /\ ledger[i].parking_date = CandidateText
       /\ ledger[i].status \in AttemptOutcomes
       /\ ledger[i].last_attempt = getFormattedDate(now)
       /\ ledger[i].created_at # getFormattedDate(now)
       /\ ledger[3 - i].status = "pending"
       /\ ledger[3 - i].last_attempt = Undefined

\* C28 as stated: the pruning of a run keeps the booked and the failed
\* records dated exactly DAYS_TO_KEEP_BOOKING days before today, at whatever
\* time of the day the run takes place.
C28_SeventhDayKept ==
  RunCompleted =>
    \A b \in Records(removed) :
      ~(/\ b.status \in {"booked", "failed"}
        /\ parseDate(b.parking_date).day = now.day - DAYS_TO_KEEP_BOOKING)

\* C29: when updateBookingStatus finds no record with the candidate's date,
\* the run goes on to its end: no record is changed, the pruning saves the
\* records it keeps, the session is closed and the process exits with the
\* status of the outcome.
C29_MissingRecordNonFatal ==
  [][(pc = "finish" /\ RecordsFor(ledger, CandidateText) = {})
     => (/\ pc' = "exited"
         /\ session' = "closed"
         /\ Records(ledger') \subseteq Records(ledger)
         /\ Len(ledger') + Len(removed') = Len(ledger)
         /\ saves' = saves + 1
         /\ exitCode' = (IF result = "booked" THEN 0 ELSE 1))]_vars

\* C29 witness: the record of the candidate was gone at update time; the
\* run that booked the date closed its session and exited with status 0,
\* having saved once, in the pruning
C29_Witness ==
  /\ RunCompleted
  /\ result = "booked"
  /\ RecordsFor(ledger, CandidateText) = {}
  /\ ledger # <<>>
  /\ saves = 1
  /\ exitCode = 0

\* the driver method was called in this run
Called(method) == \E i \in 1..Len(calls) : calls[i] = method

\* C30 as stated: once the availability check has been made, the run does
\* not come to its update without having called submit.
C30_ZoneStepNeverFails ==
  (pc \in {"finish", "exited"} /\ Called("isSharedSpaceUnavailable"))
    => Called("submit")

\* C30 as amended: the availability check itself never raises, and without
\* the indicator the run goes on to submit in the default zone; with the
\* indicator the run switches the zone, and submit is skipped only when the
\* switch raised, which gives the outcome failed.
C30_ZoneCheckNeverRaises ==
  /\ raised # "isSharedSpaceUnavailable"
  /\ (pc \in {"finish", "exited"} /\ Called("isSharedSpaceUnavailable"))
       => \/ Called("submit")
          \/ /\ sharedUnavailable = "yes"
             /\ raised = "switchToPaidParking"
             /\ result = "failed"
  /\ (pc \in {"submit", "finish", "exited"} /\ sharedUnavailable = "no")
       => (zone = "shared" /\ ~Called("switchToPaidParking"))

\* C30 witness: the indicator was there, the switch raised, and the run
\* ended failed without a submit
C30_Witness ==
  /\ RunCompleted
  /\ sharedUnavailable = "yes"
  /\ raised = "switchToPaidParking"
  /\ ~Called("submit")
  /\ result = "failed"
  /\ zone = "shared"

\* position of a driver method in the order main calls them
CallRank(method) ==
  IF method = "login" THEN 1
  ELSE IF method = "selectDate" THEN 2
  ELSE IF method = "isSharedSpaceUnavailable" THEN 3
  ELSE IF method = "switchToPaidParking" THEN 4
  ELSE 5

\* C31: the driver methods of a run are called in the order login,
\* selectDate, availability check, zone switch, submit, none of them twice;
\* selectDate is called only when login did not raise, and submit only when
\* neither login nor selectDate raised.
C31_DriverOrder ==
  /\ \A i, j \in 1..Len(calls) : i < j => CallRank(calls[i]) < CallRank(calls[j])
  /\ calls # <<>> => calls[1] = "login"
  /\ Called("selectDate") => (Called("login") /\ raised # "login")
  /\ Called("isSharedSpaceUnavailable") => Called("selectDate")
  /\ Called("submit") =>
       /\ Called("login")
       /\ Called("selectDate")
       /\ Called("isSharedSpaceUnavailable")
       /\ raised \notin {"login", "selectDate"}

\* C31 witness: a run that called all five methods
C31_Witness ==
  /\ pc = "exited"
  /\ calls = <<"login", "selectDate", "isSharedSpaceUnavailable",
               "switchToPaidParking", "submit">>
  /\ raised = "none"

\* C32: the result of a submit follows a fixed precedence: booked when the
\* success banner is visible; otherwise no_space when the no-spaces text is
\* visible; otherwise, with the error banner only or with nothing, failed.
C32_SubmitPrecedence ==
  (pc \in {"finish", "exited"} /\ Called("submit")) =>
    result = (IF "successAlert" \in indicators THEN "booked"
              ELSE IF "noSpacesMessage" \in indicators THEN "no_space"
              ELSE "failed")

\* C32 witness: all three indicators were visible and the result is booked
C32_Witness ==
  /\ pc = "exited"
  /\ Called("submit")
  /\ indicators = Indicators
  /\ result = "booked"

\* C33: every orchestrator run comes to its process exit: from any position
\* of a run, the exit is eventually reached.
C33_RunTerminates ==
  (pc \notin {"idle", "exited"}) ~> (pc = "exited")

\* C33 witness: a run whose submit ran into the timeout, at its exit with
\* all five driver methods called
C33_Witness ==
  /\ pc = "exited"
  /\ Len(calls) = 5
  /\ raised = "submit"
  /\ indicators = {}
  /\ exitCode = 1

\* ---- C34 ----
\* a record of the ledger carries an attempt made on the current day
AttemptedToday ==
  \E i \in 1..Len(ledger) : ledger[i].last_attempt = getFormattedDate(now)

\* C34: once a run has recorded an attempt today, with any outcome, and
\* add-booking has not reset that record since, a run started on the same
\* day finds no candidate: it ends at once with status 0 or 1, calls no
\* driver method and leaves every record as it was.
C34_SingleAttemptPerDay ==
  [][(pc = "idle" /\ pc' # "idle" /\ AttemptedToday)
       => /\ pc' = "exited"
          /\ targetBookingDate' = Undefined
          /\ calls' = <<>>
          /\ ledger' = ledger]_vars

\* a second run of the day, with credentials, ended without a candidate
\* while the record of tomorrow stands as failed by today's attempt
C34_Witness ==
  /\ pc = "exited"
  /\ env.read /\ env.USERNAME /\ env.PASSWORD
  /\ targetBookingDate = Undefined
  /\ loads = 1
  /\ calls = <<>>
  /\ \E i \in 1..Len(ledger) :
       /\ ledger[i].last_attempt = getFormattedDate(now)
       /\ ledger[i].status = "failed"
       /\ parseDate(ledger[i].parking_date).day = now.day + 1

\* ---- C35 ----
\* C35 as stated: a run whose scheduler selected a candidate date does not
\* come to its exit with a record of that date still pending: the outcome
\* booked, no_space or failed has been written to the ledger before.
C35_OutcomePersisted ==
  (pc = "exited" /\ targetBookingDate # Undefined) =>
    \A i \in RecordsFor(ledger, CandidateText) : ledger[i].status # "pending"

\* ---- C36 ----
\* C36: in ledgers built by add-booking and by runs alone, from the moment
\* the scheduler has selected a candidate to the update of the same run, a
\* record is stored under the text the candidate formats to; the update
\* finds it, so a run that came to its end has saved twice (once in the
\* update, once in the pruning) and never took the branch that logs that
\* the booking could not be found.
C36_UpdateFindsRecord ==
  /\ (pc \notin {"idle", "exited"}) =>
        /\ targetBookingDate # Undefined
        /\ RecordsFor(ledger, CandidateText) # {}
  /\ (RunCompleted /\ targetBookingDate # Undefined) => saves = 2

\* a run selected 01-03-2025 on the day before and is at its update, the
\* record standing under that text next to another one
C36_Witness ==
  /\ pc = "finish"
  /\ Len(ledger) = 2
  /\ targetBookingDate = MkDate(DaysFromCivil(2025, 3, 1), 0)
  /\ RecordsFor(ledger, CandidateText) # {}

\* ---- C37 ----
\* the record carries the message main builds when the driver reported no
\* space: it was written by a run with that outcome and not reset since
NoSpaceRecorded(booking) ==
  booking.attempt_message =
    [kind |-> "Booking not successful on", date |-> booking.last_attempt,
     result |-> "no_space"]

\* add-booking with the date of a record a run wrote a no-space outcome to
\* returns that record to pending
NoSpaceResettable ==
  \A d \in InputDates :
    (/\ addBookingEntry(d)
     /\ \E k \in RecordsFor(ledger, d) : NoSpaceRecorded(ledger[k]))
    => /\ cli'.log = "Reset"
       /\ RecordsFor(ledger', d) # {}
       /\ \A i \in RecordsFor(ledger', d) : ledger'[i].status = "pending"

\* the retention step of a run handles the status of such a record as the
\* no-space status: the record stays while its parking_date is today or
\* later and goes once its parking_date is before today
NoSpaceRetention ==
  (pc = "finish" /\ pc' = "exited") =>
    /\ \A b \in Records(ledger') :
         NoSpaceRecorded(b) => parseDate(b.parking_date).day >= now.day
    /\ \A b \in Records(removed') :
         NoSpaceRecorded(b) => parseDate(b.parking_date).day < now.day

\* C37 as stated: the status value a run writes for a no-space outcome is
\* the one add-booking resets and the one the retention step handles as the
\* no-space status.
C37_NoSpaceStatusShared ==
  [][NoSpaceResettable /\ NoSpaceRetention]_vars

\* ---- C38 ----
\* C38: in every ledger built by add-booking and by runs, a record has a
\* last_attempt exactly when its status is booked, failed or no_space; a
\* pending record, new or reset, has none.
C38_LastAttemptIffAttempted ==
  \A i \in 1..Len(ledger) :
    /\ ledger[i].status \in {"pending"} \cup AttemptOutcomes
    /\ (ledger[i].last_attempt # Undefined) <=>
         (ledger[i].status \in AttemptOutcomes)

\* a record reset by add-booking, pending and without last_attempt, next to
\* a record that carries the attempt of a run
C38_Witness ==
  /\ Len(ledger) = 2
  /\ \E i \in 1..2 :
       /\ ledger[i].status = "pending"
       /\ ledger[i].attempt_message = ReAdded
       /\ ledger[i].last_attempt = Undefined
       /\ ledger[3 - i].status \in AttemptOutcomes
       /\ ledger[3 - i].last_attempt # Undefined

=============================================================================
